---------------------------- MODULE Spec2Model ----------------------------
(***************************************************************************)
(* Route visualisation: the directions proxy of the four deployment        *)
(* targets (functions/api/mapbox-directions.js, worker.js, api/worker.js,  *)
(* server.js) and the browser-side search pipeline (click handler,         *)
(* processNaturalLanguage, getRouteCoordinates).                           *)
(*                                                                         *)
(* Spec        : one directions request handled by one deployment target,  *)
(*               against every sequence of upstream answers.               *)
(* SearchSpec  : one search click in the browser, against every order of   *)
(*               settlement of the language-model call, the deadline timer *)
(*               and the geocode calls.                                    *)
(* ExtractSpec : the pattern extraction of getRouteCoordinates applied to  *)
(*               one text, and again to a single name it returns.          *)
(* ReplySpec   : processNaturalLanguage applied to one answer of the       *)
(*               language-model proxy.                                     *)
(* EndpointSpec: one request at the token, geocoding or language-model     *)
(*               endpoint of a deployment target.                          *)
(* SearchLiveSpec: SearchSpec with the deadline timer firing and every     *)
(*               geocode and directions call settling.                     *)
(* OverlapSpec : several searches started in one page before the earlier   *)
(*               ones have ended.                                          *)
(* CorsSpec    : one request at the worker of worker.js and the            *)
(*               Access-Control-Allow-Origin header it answers with.       *)
(***************************************************************************)
EXTENDS Integers, Sequences, FiniteSets, TLC

(* ----------------------------- bounds --------------------------------- *)

\* longest coordinate list of a directions request body
MaxCoords == 3
\* longest routes list of an upstream directions answer
MaxRoutes == 2

(* ------------------------- general helpers ---------------------------- *)

BoundedSeq(S, n) == UNION {[1..k -> S] : k \in 0..n}

\* JavaScript's undefined, for fields whose defined values are strings
Undefined == "undefined"

(* ====================================================================== *)
(*                       THE DIRECTIONS PROXY                             *)
(* ====================================================================== *)

VARIABLES
  target,      \* the deployment target handling the request
  request,     \* the parsed request body
  dpc,         \* the handler's position: idle, first, retry, final, done
  calls,       \* the upstream directions calls issued so far, in order
  replies,     \* the upstream answers received so far, in order
  outstanding, \* number of upstream calls issued and not yet answered
  response     \* the response sent to the client

dvars == <<target, request, dpc, calls, replies, outstanding, response>>

\* functions/api/mapbox-directions.js, worker.js, api/worker.js, server.js
Targets == {"functions", "worker", "apiworker", "server"}

\* the targets whose handler has a retry (all but the Express server)
RetryTargets == {"functions", "worker", "apiworker"}

Coords == {"c1", "c2"}

\* values of the request body's profile field (Undefined: field absent)
Profiles == {"driving", "walking", "cycling", "walk", "on foot", "bicycle",
             "bike", "flying", Undefined}

\* the request body's coordinates field: absent, not an array, or an array
CoordinateFields ==
  {[kind |-> "undefined", items |-> <<>>], [kind |-> "notArray", items |-> <<>>]}
  \cup {[kind |-> "array", items |-> s] : s \in BoundedSeq(Coords, MaxCoords)}

\* the further body fields server.js reads (server.js:42)
NoExtras == [alternatives |-> Undefined, geometries |-> Undefined,
             steps |-> Undefined, overview |-> Undefined,
             waypoints_per_route |-> Undefined]

\* a body without them, and one that sets each of them
ReqExtras ==
  {NoExtras,
   [alternatives |-> "true", geometries |-> "polyline", steps |-> "true",
    overview |-> "simplified", waypoints_per_route |-> "true"]}

Requests ==
  {[coordinates |-> c, profile |-> p, extras |-> e] :
     c \in CoordinateFields, p \in Profiles, e \in ReqExtras}

NoRequest == [coordinates |-> [kind |-> "undefined", items |-> <<>>],
              profile |-> Undefined, extras |-> NoExtras]

validProfiles == {"driving", "walking", "cycling"}

\* const { profile = 'driving' } = body: the default applies to undefined only
DefaultedProfile(profile) == IF profile = Undefined THEN "driving" ELSE profile

\* functions/api/mapbox-directions.js:8-17
normalizedProfile(profile) ==
  LET p == DefaultedProfile(profile) IN
  IF p \in {"walking", "walk", "on foot"} THEN "walking"
  ELSE IF p \in {"cycling", "bicycle", "bike"} THEN "cycling"
  ELSE IF p \in validProfiles THEN p
  ELSE "driving"

\* the profile segment of the upstream URL, per target
UrlProfile(t, profile) ==
  CASE t = "functions" -> normalizedProfile(profile)
    [] t \in {"worker", "apiworker"} -> DefaultedProfile(profile)
    [] OTHER -> profile

\* coordinates.map(coord => coord.join(',')).join(';') and the URL built
\* from it: the path's profile segment and its ';'-separated coordinates
Url(t, req) == [profile |-> UrlProfile(t, req.profile),
                coords |-> req.coordinates.items]

\* JavaScript's a || b on the body fields
OrElse(a, b) == IF a \in {Undefined, "false", ""} THEN b ELSE a

WorkerParams == [access_token |-> "MAPBOX_TOKEN", alternatives |-> "false",
                 geometries |-> "geojson", steps |-> "false",
                 overview |-> "full", waypoints_per_route |-> Undefined]

\* server.js:58-69
ServerParams(e) ==
  [access_token |-> "MAPBOX_TOKEN",
   alternatives |-> OrElse(e.alternatives, "false"),
   geometries |-> OrElse(e.geometries, "geojson"),
   steps |-> OrElse(e.steps, "false"),
   overview |-> OrElse(e.overview, "full"),
   waypoints_per_route |-> e.waypoints_per_route]

Params(t, req) == IF t = "server" THEN ServerParams(req.extras) ELSE WorkerParams

InvalidCoordinatesEmptyOnly(c) == c.kind # "array" \/ Len(c.items) < 1

\* !coordinates || !Array.isArray(coordinates) || coordinates.length < 2
InvalidCoordinates(c) == c.kind # "array" \/ Len(c.items) < 2

(* ----------------------- upstream answers ----------------------------- *)

\* rA: a route with its geometry; rBare: a route object without one
Routes == {"rA", "rBare"}
HasGeometry(r) == r # "rBare"

Statuses == {200, 404, 422, 500}
Ok(status) == status \in 200..299

\* an answer of the upstream: an HTTP response with a JSON body, no
\* response at all, or an exception while the call is made or its body read
Replies ==
  {[kind |-> "response", status |-> 200, code |-> "Ok",
    hasRoutes |-> TRUE, routes |-> r] : r \in BoundedSeq(Routes, MaxRoutes)}
  \cup {[kind |-> "response", status |-> 200, code |-> "Ok",
         hasRoutes |-> FALSE, routes |-> <<>>]}
  \cup {[kind |-> "response", status |-> s, code |-> c,
         hasRoutes |-> FALSE, routes |-> <<>>] :
          s \in Statuses \ {200}, c \in {"InvalidInput", "NoRoute"}}
  \cup {[kind |-> k, status |-> 0, code |-> "", hasRoutes |-> FALSE,
         routes |-> <<>>] : k \in {"noResponse", "error"}}

\* data.routes && data.routes.length > 0
SomeRoutes(reply) == reply.hasRoutes /\ Len(reply.routes) > 0

(* --------------------- responses to the client ------------------------ *)

NoResponse == [status |-> 0, shape |-> "none", route |-> "", routes |-> <<>>,
               error |-> ""]

ErrorResponse(status, msg) ==
  [status |-> status, shape |-> "error", route |-> "", routes |-> <<>>,
   error |-> msg]

\* JSON.stringify({ route }) with status 200
RouteResponse(r) ==
  [status |-> 200, shape |-> "route", route |-> r, routes |-> <<>>,
   error |-> ""]

\* res.json(response.data): the whole upstream body (server.js:94)
DataResponse(reply) ==
  [status |-> 200, shape |-> "data", route |-> "", routes |-> reply.routes,
   error |-> ""]

(* ------------------------- the handler -------------------------------- *)

DirInit ==
  /\ target = "functions"
  /\ request = NoRequest
  /\ dpc = "idle"
  /\ calls = <<>>
  /\ replies = <<>>
  /\ outstanding = 0
  /\ response = NoResponse

Call(url, params) == [url |-> url, params |-> params]

DirectionsRequestHedged(t, req) ==
  /\ dpc = "idle"
  /\ target' = t
  /\ request' = req
  /\ replies' = replies
  /\ IF InvalidCoordinates(req.coordinates)
     THEN /\ response' = ErrorResponse(400, "coordinates required")
          /\ dpc' = "done"
          /\ UNCHANGED <<calls, outstanding>>
     ELSE /\ calls' = calls \o <<Call(Url(t, req), Params(t, req)),
                                  Call(Url(t, req), WorkerParams)>>
          /\ outstanding' = outstanding + 2
          /\ dpc' = "first"
          /\ UNCHANGED response

\* The request arrives: the body is read, the profile normalised, the
\* coordinates validated, and the first upstream call issued.
\* functions/api/mapbox-directions.js:3-52, worker.js:110-139,
\* api/worker.js:83-112, server.js:42-77
DirectionsRequest(t, req) ==
  /\ dpc = "idle"
  /\ target' = t
  /\ request' = req
  /\ replies' = replies
  /\ IF InvalidCoordinates(req.coordinates)
     THEN /\ response' = ErrorResponse(400, "coordinates required")
          /\ dpc' = "done"
          /\ UNCHANGED <<calls, outstanding>>
     ELSE /\ calls' = Append(calls, Call(Url(t, req), Params(t, req)))
          /\ outstanding' = outstanding + 1
          /\ dpc' = "first"
          /\ UNCHANGED response

\* data.routes[0]
FirstRouteLast(reply) == reply.routes[Len(reply.routes)]

FirstRoute(reply) == reply.routes[1]

RetryConditionAnyCode(reply) == reply.status = 422

\* response.status === 422 && data.code === 'InvalidInput'
\* functions/api/mapbox-directions.js:60, worker.js:147, api/worker.js:120
RetryCondition(reply) == reply.status = 422 /\ reply.code = "InvalidInput"

WorkerFirstOutcomeRetryEmpty(reply) ==
  IF reply.kind # "response" THEN "throw"
  ELSE IF ~Ok(reply.status)
  THEN (IF RetryCondition(reply) THEN "retry" ELSE "upstreamError")
  ELSE IF SomeRoutes(reply)
  THEN (IF HasGeometry(FirstRoute(reply)) THEN "route" ELSE "throw")
  ELSE "retry"

\* the branch the workers' handler takes on the first answer
\* functions/api/mapbox-directions.js:52-121, worker.js:139-180,
\* api/worker.js:112-153
WorkerFirstOutcome(reply) ==
  IF reply.kind # "response" THEN "throw"
  ELSE IF ~Ok(reply.status)
  THEN (IF RetryCondition(reply) THEN "retry" ELSE "upstreamError")
  ELSE IF SomeRoutes(reply)
  THEN \* route.geometry.coordinates.length in the log line throws on a
       \* route without geometry
       (IF HasGeometry(FirstRoute(reply)) THEN "route" ELSE "throw")
  ELSE "noRoutes"

\* the workers' handling of the first answer
WorkerFirst(reply) ==
  LET outcome == WorkerFirstOutcome(reply) IN
  IF outcome = "retry"
  THEN \* retryDirectionsRequest(url, token[, normalizedProfile]): the
       \* first call is answered, the retry is issued
       /\ calls' = Append(calls, Call(calls[1].url, WorkerParams))
       /\ outstanding' = (outstanding - 1) + 1
       /\ dpc' = "retry"
       /\ UNCHANGED response
  ELSE /\ dpc' = "done"
       /\ UNCHANGED calls
       /\ outstanding' = outstanding - 1
       /\ response' =
            CASE outcome = "throw" -> ErrorResponse(500, "Internal server error")
              [] outcome = "upstreamError" ->
                   ErrorResponse(reply.status, "Failed to get directions")
              [] outcome = "route" -> RouteResponse(FirstRoute(reply))
              [] OTHER -> ErrorResponse(404, "No routes found")

\* server.js:73-125
ServerFirst(reply) ==
  /\ dpc' = "done"
  /\ UNCHANGED calls
  /\ outstanding' = outstanding - 1
  /\ IF reply.kind = "noResponse"
     THEN response' = ErrorResponse(504, "No response received from Mapbox API")
     ELSE IF reply.kind = "error"
     THEN response' = ErrorResponse(500, "Error setting up Mapbox API request")
     ELSE IF ~Ok(reply.status)
     THEN response' = ErrorResponse(reply.status, "Mapbox API error")
     ELSE IF ~SomeRoutes(reply)
     THEN response' = ErrorResponse(404, "No route found")
     ELSE IF HasGeometry(FirstRoute(reply))
     THEN response' = DataResponse(reply)
     ELSE \* the log line throws inside the inner try: neither .response
          \* nor .request is set on a TypeError
          response' = ErrorResponse(500, "Error setting up Mapbox API request")

\* The first upstream answer arrives and the handler continues after its
\* await.
FirstResponse(reply) ==
  /\ dpc = "first"
  /\ replies' = Append(replies, reply)
  /\ UNCHANGED <<target, request>>
  /\ IF target = "server" THEN ServerFirst(reply) ELSE WorkerFirst(reply)

\* the profile retryDirectionsRequest sees: functions passes the normalised
\* profile; worker.js and api/worker.js have no such parameter
RetryProfile == IF target = "functions" THEN calls[1].url.profile ELSE "driving"

\* (profile === 'walking' || profile === 'cycling') && response.status === 422
\* functions/api/mapbox-directions.js:147 (absent from the two workers)
SimplifyCondition(reply) ==
  /\ target = "functions"
  /\ RetryProfile \in {"walking", "cycling"}
  /\ reply.status = 422

\* url.replace(<all coordinates>, `${startCoord};${endCoord}`)
simplifiedUrl(url) ==
  [url EXCEPT !.coords = <<url.coords[1], url.coords[Len(url.coords)]>>]

\* retryDirectionsRequest: the answer of the retry arrives.
\* functions/api/mapbox-directions.js:139-232, worker.js:196-227
RetryResponse(reply) ==
  /\ dpc = "retry"
  /\ replies' = Append(replies, reply)
  /\ UNCHANGED <<target, request>>
  /\ IF reply.kind # "response"
     THEN /\ response' = ErrorResponse(500, "Internal server error during retry")
          /\ dpc' = "done"
          /\ UNCHANGED calls
          /\ outstanding' = outstanding - 1
     ELSE IF ~Ok(reply.status)
     THEN IF SimplifyCondition(reply) /\ Len(calls[1].url.coords) >= 2
          THEN /\ calls' = Append(calls, Call(simplifiedUrl(calls[1].url),
                                              WorkerParams))
               /\ outstanding' = (outstanding - 1) + 1
               /\ dpc' = "final"
               /\ UNCHANGED response
          ELSE /\ response' = ErrorResponse(reply.status,
                                  "Failed to get directions on retry")
               /\ dpc' = "done"
               /\ UNCHANGED calls
               /\ outstanding' = outstanding - 1
     ELSE /\ dpc' = "done"
          /\ UNCHANGED calls
          /\ outstanding' = outstanding - 1
          /\ IF SomeRoutes(reply)
             THEN response' = RouteResponse(FirstRoute(reply))
             ELSE response' = ErrorResponse(404, "No routes found")

\* The answer of the simplified call arrives.
\* functions/api/mapbox-directions.js:160-191
FinalResponse(reply) ==
  /\ dpc = "final"
  /\ replies' = Append(replies, reply)
  /\ UNCHANGED <<target, request, calls>>
  /\ outstanding' = outstanding - 1
  /\ dpc' = "done"
  /\ IF reply.kind # "response"
     THEN response' = ErrorResponse(500, "Internal server error during retry")
     ELSE IF Ok(reply.status) /\ SomeRoutes(reply)
     THEN response' = RouteResponse(FirstRoute(reply))
     ELSE \* the status of the RETRY's answer, not of the final one
          response' = ErrorResponse(replies[2].status,
                          "Failed to get directions on retry")

(* ====================================================================== *)
(*                    THE BROWSER-SIDE SEARCH                             *)
(* ====================================================================== *)

(* ------------------------------ text ---------------------------------- *)

\* A text is a sequence of one-character strings.
IsSpace(c) == c = " "

\* String.prototype.trim
RECURSIVE TrimLeft(_)
TrimLeft(s) ==
  IF s # <<>> /\ IsSpace(Head(s)) THEN TrimLeft(Tail(s)) ELSE s

RECURSIVE TrimRight(_)
TrimRight(s) ==
  IF s # <<>> /\ IsSpace(s[Len(s)]) THEN TrimRight(SubSeq(s, 1, Len(s) - 1))
  ELSE s

Trim(s) == TrimRight(TrimLeft(s))

\* the punctuation marks of /[.!?]+$/
PunctuationMarks == {".", "!", "?"}

StripFirstPunctRun(s) ==
  LET marks == {k \in 1..Len(s) : s[k] \in PunctuationMarks} IN
  IF marks = {} THEN s
  ELSE LET first == CHOOSE k \in marks : \A m \in marks : k <= m
           after == {k \in first..Len(s) : s[k] \notin PunctuationMarks}
           next == IF after = {} THEN Len(s) + 1
                   ELSE CHOOSE k \in after : \A m \in after : k <= m
       IN SubSeq(s, 1, first - 1) \o SubSeq(s, next, Len(s))

\* replace(/[.!?]+$/, ''): the whole trailing run of . ! ?
RECURSIVE StripTrailingPunct(_)
StripTrailingPunct(s) ==
  IF s # <<>> /\ s[Len(s)] \in PunctuationMarks
  THEN StripTrailingPunct(SubSeq(s, 1, Len(s) - 1))
  ELSE s

\* toLowerCase, on the letters the texts use in upper case
LowerChar(c) ==
  CASE c = "F" -> "f" [] c = "R" -> "r" [] c = "O" -> "o" [] c = "M" -> "m"
    [] c = "T" -> "t" [] OTHER -> c

toLowerCase(s) == [i \in 1..Len(s) |-> LowerChar(s[i])]

startsWithFromCaseSensitive(s) ==
  Len(s) >= 5 /\ SubSeq(s, 1, 5) = <<"f", "r", "o", "m", " ">>

\* inputString.toLowerCase().startsWith('from ')
startsWithFrom(s) ==
  Len(s) >= 5 /\ toLowerCase(SubSeq(s, 1, 5)) = <<"f", "r", "o", "m", " ">>

\* the index after the run of white space that starts at i (i itself when
\* s[i] is no white space)
RECURSIVE SkipSpaces(_, _)
SkipSpaces(s, i) ==
  IF i <= Len(s) /\ IsSpace(s[i]) THEN SkipSpaces(s, i + 1) ELSE i

\* /\s+to\s+/i matches at i: <<TRUE, index after the match>>, or <<FALSE, 0>>
MatchToAt(s, i) ==
  LET j == SkipSpaces(s, i) IN
  IF /\ i <= Len(s) /\ IsSpace(s[i])
     /\ j + 2 <= Len(s)
     /\ LowerChar(s[j]) = "t" /\ LowerChar(s[j + 1]) = "o"
     /\ IsSpace(s[j + 2])
  THEN <<TRUE, SkipSpaces(s, j + 2)>>
  ELSE <<FALSE, 0>>

\* the leftmost index >= from where /\s+to\s+/i matches, 0 when none
FirstMatchTo(s, from) ==
  LET hits == {i \in from..Len(s) : MatchToAt(s, i)[1]} IN
  IF hits = {} THEN 0 ELSE CHOOSE i \in hits : \A k \in hits : i <= k

\* String.prototype.split(/\s+to\s+/i)
RECURSIVE SplitTo(_)
SplitTo(s) ==
  LET i == FirstMatchTo(s, 1) IN
  IF i = 0 THEN <<s>>
  ELSE <<SubSeq(s, 1, i - 1)>>
       \o SplitTo(SubSeq(s, MatchToAt(s, i)[2], Len(s)))

\* .map(location => location.trim()).filter(location => location.length > 0)
TrimAndFilter(pieces) ==
  SelectSeq([k \in 1..Len(pieces) |-> Trim(pieces[k])], LAMBDA x : x # <<>>)

\* the extraction inside getRouteCoordinates (part_000:241-258)
PatternExtract(input) ==
  LET stripped == Trim(StripTrailingPunct(Trim(input)))
      inputString == IF startsWithFrom(stripped)
                     THEN Trim(SubSeq(stripped, 6, Len(stripped)))
                     ELSE stripped
  IN TrimAndFilter(SplitTo(inputString))

\* extractLocationsWithRegex of nlp.js, which is not among the sources:
\* the pattern extractor as the specification describes it (4.1, steps 1-3)
extractLocationsWithRegex(input) ==
  LET stripped == StripTrailingPunct(Trim(input))
      rest == IF startsWithFrom(stripped)
              THEN SubSeq(stripped, 6, Len(stripped))
              ELSE stripped
  IN TrimAndFilter(SplitTo(rest))

(* ----------------------------- inputs --------------------------------- *)

\* longest location list the language model returns
MaxLocs == 3

P == <<"p">>
L == <<"l">>

\* what the user may have typed
Texts ==
  {<<" ">>,
   <<"?">>,
   <<"p">>,
   <<"F", "r", "o", "m", " ", "p">>,
   <<"p", " ", "t", "o", " ", "l">>,
   <<"F", "r", "o", "m", " ", "p", " ", "t", "o", " ", "l", ".">>,
   <<"p", " ", "t", "o", " ", "l", " ", "T", "O", " ", "p">>}

\* preferences of a language-model result: absent or null, or an object
\* whose fields are "null" when not specified
NullPreferences ==
  [kind |-> "null", transportMode |-> "null", avoidTolls |-> "null",
   avoidHighways |-> "null", avoidFerries |-> "null"]

LlmPreferences ==
  {NullPreferences,
   [NullPreferences EXCEPT !.kind = "object"],
   [kind |-> "object", transportMode |-> "bike", avoidTolls |-> "true",
    avoidHighways |-> "null", avoidFerries |-> "false"]}

\* the location lists of a language-model result: l, p, l, ... of each
\* length up to MaxLocs
LlmLocationLists ==
  {[i \in 1..k |-> IF i % 2 = 1 THEN L ELSE P] : k \in 0..MaxLocs}

\* the object JSON.parse returns (part_000:202-206): locations is an array
\* or absent, as the prompt asks
LlmResults ==
  {[hasLocations |-> TRUE, locations |-> ls, preferences |-> pr] :
     ls \in LlmLocationLists, pr \in LlmPreferences}
  \cup {[hasLocations |-> FALSE, locations |-> <<>>,
         preferences |-> NullPreferences]}

NoResult == [hasLocations |-> FALSE, locations |-> <<>>,
             preferences |-> NullPreferences]

\* why processNaturalLanguage throws (part_000:188-213): the proxy answered
\* non-2xx, the reply holds no object, or JSON.parse threw
LlmFailures == {"http", "unparseable", "parseException"}

\* what one geocode call's promise chain settles to (part_000:301-320)
GeoCoords == {"g1", "g2"}
GeoOutcomes ==
  {[state |-> "ok", coord |-> g] : g \in GeoCoords}
  \cup {[state |-> "failed", coord |-> k] : k \in {"notFound", "upstream"}}

GeoPending == [state |-> "pending", coord |-> ""]

\* the answers of POST /api/mapbox-directions as the browser sees them
FrontReplies ==
  {[kind |-> "notOk", error |-> e, route |-> ""] :
     e \in {"Failed to get directions", ""}}
  \cup {[kind |-> "network", error |-> "Failed to fetch", route |-> ""]}
  \cup {[kind |-> "ok", error |-> "", route |-> r] : r \in {"rA", ""}}

\* the map when the route arrives: not initialised, without its 'route'
\* source, or ready
MapStates == {"noMap", "noSource", "ready"}

\* what the extraction inside getRouteCoordinates (part_000:241-258) yields
\* for each text the user may have typed
PatternExtracted == [t \in Texts |-> PatternExtract(t)]

\* what extractLocationsWithRegex yields for each of them
RegexExtracted == [t \in Texts |-> extractLocationsWithRegex(t)]

(* ------------------------------ state --------------------------------- *)

VARIABLES
  spc,          \* the search's position: idle, racing, geocoding, directions, done
  inputValue,   \* the text of the search box at the click
  llm,          \* processNaturalLanguage's promise: none, pending, resolved,
                \* or the reason it rejected with
  result,       \* the value Promise.race fulfilled with, if it did
  timer,        \* the deadline timer: none, pending, fired
  race,         \* Promise.race: none, pending, fulfilled, rejected
  grcCalls,     \* the calls of getRouteCoordinates, in order
  locations,    \* the location list getRouteCoordinates works on
  preferences,  \* its preferences, after defaulting
  geocodeCalls, \* the geocode calls issued, in order
  geo,          \* the state of each geocode promise, by position
  allState,     \* Promise.all: none, pending, fulfilled, rejected
  allValues,    \* Promise.all's array of values
  dirCalls,     \* the bodies of the directions calls issued
  alerts,       \* the alerts shown to the user
  loading,      \* the loading indicator: hidden, or its text
  mapRoute      \* the data of the map's 'route' source

svars == <<spc, inputValue, llm, result, timer, race, grcCalls, locations,
           preferences, geocodeCalls, geo, allState, allValues, dirCalls,
           alerts, loading, mapRoute>>

SearchInit ==
  /\ spc = "idle"
  /\ inputValue = <<>>
  /\ llm = "none"
  /\ result = NoResult
  /\ timer = "none"
  /\ race = "none"
  /\ grcCalls = <<>>
  /\ locations = <<>>
  /\ preferences = NullPreferences
  /\ geocodeCalls = <<>>
  /\ geo = <<>>
  /\ allState = "none"
  /\ allValues = <<>>
  /\ dirCalls = <<>>
  /\ alerts = <<>>
  /\ loading = "hidden"
  /\ mapRoute = ""

Alert(text, name) == [text |-> text, name |-> name]

(* ------------------------ getRouteCoordinates ------------------------- *)

\* preferences = preferences || { transportMode: 'driving', ... }
\* (part_000:224-229)
DefaultPreferences(prefs) ==
  IF prefs.kind = "null"
  THEN [kind |-> "object", transportMode |-> "driving", avoidTolls |-> "false",
        avoidHighways |-> "false", avoidFerries |-> "false"]
  ELSE prefs

\* preferences.transportMode || 'driving' (part_000:340)
RequestProfile(prefs) ==
  IF prefs.transportMode \in {"null", ""} THEN "driving" ELSE prefs.transportMode

GetRouteCoordinatesKeepsIndicator(source, locs, prefs) ==
  /\ grcCalls' = Append(grcCalls, [source |-> source, locations |-> locs])
  /\ locations' = locs
  /\ preferences' = DefaultPreferences(prefs)
  /\ IF Len(locs) < 1
     THEN /\ alerts' = Append(alerts, Alert("Please enter valid locations", <<>>))
          /\ loading' = "Finding route..."
          /\ spc' = "done"
          /\ UNCHANGED <<geocodeCalls, geo, allState, allValues>>
     ELSE /\ geocodeCalls' = geocodeCalls \o locs
          /\ geo' = [i \in 1..Len(locs) |-> GeoPending]
          /\ allState' = "pending"
          /\ allValues' = [i \in 1..Len(locs) |-> ""]
          /\ loading' = "Finding route..."
          /\ spc' = "geocoding"
          /\ UNCHANGED alerts
  /\ UNCHANGED <<dirCalls, mapRoute>>

\* getRouteCoordinates from its location list on (part_000:284-321): an
\* empty list is refused, otherwise one geocode call per location is issued
GetRouteCoordinates(source, locs, prefs) ==
  /\ grcCalls' = Append(grcCalls, [source |-> source, locations |-> locs])
  /\ locations' = locs
  /\ preferences' = DefaultPreferences(prefs)
  /\ IF Len(locs) < 1
     THEN /\ alerts' = Append(alerts, Alert("Please enter valid locations", <<>>))
          /\ loading' = "hidden"
          /\ spc' = "done"
          /\ UNCHANGED <<geocodeCalls, geo, allState, allValues>>
     ELSE /\ geocodeCalls' = geocodeCalls \o locs
          /\ geo' = [i \in 1..Len(locs) |-> GeoPending]
          /\ allState' = "pending"
          /\ allValues' = [i \in 1..Len(locs) |-> ""]
          /\ loading' = "Finding route..."
          /\ spc' = "geocoding"
          /\ UNCHANGED alerts
  /\ UNCHANGED <<dirCalls, mapRoute>>

\* the variables getRouteCoordinates and what follows it write
grcVars == <<grcCalls, locations, preferences, geocodeCalls, geo, allState,
             allValues, dirCalls, alerts, loading, mapRoute>>

(* ------------------------- the click handler -------------------------- *)

\* The search button is clicked (part_000:89-111): a blank input is
\* refused; otherwise the indicator is shown, the language-model call is
\* issued and the deadline timer started.
Click(text) ==
  /\ spc = "idle"
  /\ inputValue' = text
  /\ IF Trim(text) = <<>>
     THEN /\ alerts' = Append(alerts, Alert("Please enter a search query", <<>>))
          /\ spc' = "done"
          /\ UNCHANGED <<llm, timer, race, loading>>
     ELSE /\ loading' = "Processing your request..."
          /\ llm' = "pending"
          /\ timer' = "pending"
          /\ race' = "pending"
          /\ spc' = "racing"
          /\ UNCHANGED alerts
  /\ UNCHANGED <<result, grcCalls, locations, preferences, geocodeCalls, geo,
                 allState, allValues, dirCalls, mapRoute>>

RaceUndecidedAlways == race \in {"pending", "fulfilled", "rejected"}

\* Promise.race settles with the first of its promises to settle; the
\* await of line 108 continues once (part_000:108-111)
RaceUndecided == race = "pending"

\* the try branch after the await (part_000:113-123)
HandleFulfilled(res) ==
  IF res.hasLocations /\ Len(res.locations) > 0
  THEN GetRouteCoordinates("nlp", res.locations, res.preferences)
  ELSE GetRouteCoordinates("raw", PatternExtracted[inputValue], NullPreferences)

HandleRejectedAbort ==
  LET regexLocations == extractLocationsWithRegex(inputValue) IN
  IF Len(regexLocations) >= 2
  THEN GetRouteCoordinates("regex", regexLocations, NullPreferences)
  ELSE /\ alerts' = Append(alerts, Alert("Could not understand", <<>>))
       /\ loading' = "hidden"
       /\ spc' = "done"
       /\ UNCHANGED <<grcCalls, locations, preferences, geocodeCalls, geo,
                      allState, allValues, dirCalls, mapRoute>>

HandleRejectedReports ==
  /\ alerts' = Append(alerts, Alert("Error: Could not parse Gemini API response",
                                    <<>>))
  /\ loading' = "hidden"
  /\ spc' = "done"
  /\ UNCHANGED <<grcCalls, locations, preferences, geocodeCalls, geo,
                 allState, allValues, dirCalls, mapRoute>>

\* the catch branch (part_000:124-139)
HandleRejected ==
  LET regexLocations == RegexExtracted[inputValue] IN
  IF Len(regexLocations) >= 2
  THEN GetRouteCoordinates("regex", regexLocations, NullPreferences)
  ELSE GetRouteCoordinates("raw", PatternExtracted[inputValue], NullPreferences)

\* processNaturalLanguage resolves with the parsed object
LlmResolve(res) ==
  /\ llm = "pending"
  /\ llm' = "resolved"
  /\ UNCHANGED <<inputValue, timer>>
  /\ IF RaceUndecided
     THEN /\ race' = "fulfilled"
          /\ result' = res
          /\ HandleFulfilled(res)
     ELSE UNCHANGED <<race, result, spc, grcVars>>

\* processNaturalLanguage throws: the proxy answered non-2xx, or the reply
\* holds no object that parses
LlmReject(reason) ==
  /\ llm = "pending"
  /\ llm' = reason
  /\ UNCHANGED <<inputValue, timer, result>>
  /\ IF RaceUndecided
     THEN /\ race' = "rejected"
          /\ HandleRejected
     ELSE UNCHANGED <<race, spc, grcVars>>

\* the deadline timer fires and rejects timeoutPromise (part_000:102-104);
\* it is never cleared, so it fires in every search
TimerFire ==
  /\ timer = "pending"
  /\ timer' = "fired"
  /\ UNCHANGED <<inputValue, llm, result>>
  /\ IF RaceUndecided
     THEN /\ race' = "rejected"
          /\ HandleRejected
     ELSE UNCHANGED <<race, spc, grcVars>>

(* ------------------- geocoding and directions ------------------------- *)

PromiseAllStoreInOrderOfCompletion(values, index, value) ==
  LET free == {k \in 1..Len(values) : values[k] = ""}
      first == CHOOSE k \in free : \A m \in free : k <= m
  IN [values EXCEPT ![first] = value]

\* Promise.all keeps each value at the index of its promise
PromiseAllStore(values, index, value) == [values EXCEPT ![index] = value]

\* the body of the directions call (part_000:338-341)
DirectionsBody(coordinates, prefs) ==
  [coordinates |-> coordinates, profile |-> RequestProfile(prefs)]

\* all geocode calls resolved with one coordinate only: the first then
\* callback throws, the catch at the end of the chain reports it
\* (part_000:328-330, 390-395)
SingleLocation(coordinates) ==
  /\ alerts' = Append(alerts,
        Alert("Error: At least two valid locations are needed to create a route",
              <<>>))
  /\ loading' = "hidden"
  /\ spc' = "done"
  /\ UNCHANGED <<mapRoute, dirCalls>>

\* the first then callback of Promise.all (part_000:325-343)
AllGeocoded(coordinates) ==
  IF Len(coordinates) < 2
  THEN SingleLocation(coordinates)
  ELSE /\ dirCalls' = Append(dirCalls, DirectionsBody(coordinates, preferences))
       /\ spc' = "directions"
       /\ UNCHANGED <<alerts, loading, mapRoute>>

GeocodeFailedContinues(i) ==
  UNCHANGED <<allState, alerts, loading, spc, mapRoute, dirCalls>>

\* a geocode promise rejected with `Unable to find "<location>" on the
\* map` while Promise.all was pending: Promise.all rejects with it and the
\* catch at the end of the chain alerts it (part_000:317-320, 390-395)
GeocodeFailed(i) ==
  /\ allState' = "rejected"
  /\ alerts' = Append(alerts, Alert("Error: Unable to find on the map",
                                    locations[i]))
  /\ loading' = "hidden"
  /\ spc' = "done"
  /\ UNCHANGED <<mapRoute, dirCalls>>

PromiseAllPendingAlways == TRUE

\* Promise.all settles once: its then and catch callbacks react to the
\* first rejection, or to the last fulfilment, only (part_000:324-325)
PromiseAllPending == allState = "pending"

PromiseAllFulfilledByFirst(promises) ==
  \E k \in DOMAIN promises : promises[k].state = "ok"

\* Promise.all fulfils when every one of its promises has fulfilled
\* (part_000:324-325)
PromiseAllFulfilled(promises) ==
  \A k \in DOMAIN promises : promises[k].state = "ok"

\* One geocode call's promise chain settles (part_000:293-343).
GeocodeSettle(i, out) ==
  /\ i \in DOMAIN geo
  /\ geo[i].state = "pending"
  /\ geo' = [geo EXCEPT ![i] = out]
  /\ UNCHANGED <<inputValue, llm, result, timer, race, grcCalls, locations,
                 preferences, geocodeCalls>>
  /\ IF ~PromiseAllPending
     THEN \* Promise.all has settled: a later settlement has no reaction
          UNCHANGED <<allState, allValues, alerts, loading, spc, mapRoute,
                      dirCalls>>
     ELSE IF out.state = "failed"
     THEN /\ GeocodeFailed(i)
          /\ UNCHANGED allValues
     ELSE /\ allValues' = PromiseAllStore(allValues, i, out.coord)
          /\ IF PromiseAllFulfilled(geo')
             THEN /\ allState' = "fulfilled"
                  /\ AllGeocoded(allValues')
             ELSE UNCHANGED <<allState, alerts, loading, spc, mapRoute,
                              dirCalls>>

DirectionsSettleLeavesIndicator(reply, mapState) ==
  /\ spc = "directions"
  /\ spc' = "done"
  /\ loading' = IF reply.kind = "ok" /\ reply.route # "" /\ mapState # "ready"
                THEN loading ELSE "hidden"
  /\ UNCHANGED <<inputValue, llm, result, timer, race, grcCalls, locations,
                 preferences, geocodeCalls, geo, allState, allValues, dirCalls>>
  /\ CASE reply.kind = "notOk" ->
            /\ alerts' = Append(alerts,
                 Alert(IF reply.error = "" THEN "Error: Unable to get directions"
                       ELSE "Error: Failed to get directions", <<>>))
            /\ UNCHANGED mapRoute
       [] reply.kind = "network" ->
            /\ alerts' = Append(alerts, Alert("Error: Failed to fetch", <<>>))
            /\ UNCHANGED mapRoute
       [] reply.kind = "ok" /\ reply.route = "" ->
            /\ alerts' = Append(alerts,
                 Alert("Error: Invalid route data received", <<>>))
            /\ UNCHANGED mapRoute
       [] OTHER ->
            /\ mapRoute' = IF mapState = "ready" THEN reply.route ELSE mapRoute
            /\ UNCHANGED alerts

\* The directions call settles (part_000:344-395).
DirectionsSettle(reply, mapState) ==
  /\ spc = "directions"
  /\ spc' = "done"
  /\ loading' = "hidden"
  /\ UNCHANGED <<inputValue, llm, result, timer, race, grcCalls, locations,
                 preferences, geocodeCalls, geo, allState, allValues, dirCalls>>
  /\ CASE reply.kind = "notOk" ->
            \* errorData.error || 'Unable to get directions'
            /\ alerts' = Append(alerts,
                 Alert(IF reply.error = "" THEN "Error: Unable to get directions"
                       ELSE "Error: Failed to get directions", <<>>))
            /\ UNCHANGED mapRoute
       [] reply.kind = "network" ->
            /\ alerts' = Append(alerts, Alert("Error: Failed to fetch", <<>>))
            /\ UNCHANGED mapRoute
       [] reply.kind = "ok" /\ reply.route = "" ->
            /\ alerts' = Append(alerts,
                 Alert("Error: Invalid route data received", <<>>))
            /\ UNCHANGED mapRoute
       [] OTHER ->
            /\ mapRoute' = IF mapState = "ready" THEN reply.route ELSE mapRoute
            /\ UNCHANGED alerts

(* ====================================================================== *)
(*              THE PATTERN EXTRACTION AS A PURE FUNCTION                 *)
(* ====================================================================== *)

\* longest text, in tokens, handed to the pattern extraction
MaxTokens == 5

\* the pieces the texts are made of: a name, white space, the separator in
\* lower and in upper case, the bare word, the prefix, and punctuation
Tokens ==
  {<<"a">>, <<" ">>, <<" ", "t", "o", " ">>, <<" ", "T", "O", " ">>,
   <<"t", "o">>, <<"F", "r", "o", "m", " ">>, <<".">>, <<"?", "!">>}

RECURSIVE Concat(_)
Concat(pieces) ==
  IF pieces = <<>> THEN <<>> ELSE Head(pieces) \o Concat(Tail(pieces))

VARIABLES
  xpc,        \* idle; input: a text is given; extracted; again
  text,       \* the input string
  extracted,  \* the locations extracted from it
  again       \* the locations extracted from the single name extracted

xvars == <<xpc, text, extracted, again>>

\* no text is being extracted
ExtractIdle ==
  /\ xpc = "idle"
  /\ text = <<>>
  /\ extracted = <<>>
  /\ again = <<>>

\* getRouteCoordinates is given an input string (part_000:222, 238-241):
\* any text made of at most MaxTokens pieces
ExtractInit ==
  /\ xpc = "input"
  /\ \E pieces \in BoundedSeq(Tokens, MaxTokens) : text = Concat(pieces)
  /\ extracted = <<>>
  /\ again = <<>>

\* the extraction of part_000:241-258 is applied to the text
Extract ==
  /\ xpc = "input"
  /\ extracted' = PatternExtract(text)
  /\ xpc' = "extracted"
  /\ UNCHANGED <<text, again>>

\* the single name extracted is the next input string
ExtractAgain ==
  /\ xpc = "extracted"
  /\ Len(extracted) = 1
  /\ again' = PatternExtract(extracted[1])
  /\ xpc' = "again"
  /\ UNCHANGED <<text, extracted>>

(* ====================================================================== *)
(*            THE REPLY OF THE LANGUAGE MODEL AND ITS OBJECT              *)
(* ====================================================================== *)

\* longest reply text, in characters
MaxReply == 5

\* the characters of a reply text: the braces, "k" for a member of an
\* object and "w" for a word of prose
ReplyChars == {"{", "}", "k", "w"}

\* data of the proxy's answer (part_000:192-199): with or without
\* candidates[0].content.parts[0], whose text is the reply text
Replys ==
  {[hasParts |-> TRUE, text |-> t] : t \in BoundedSeq(ReplyChars, MaxReply)}
  \cup {[hasParts |-> FALSE, text |-> <<>>]}

\* nothing was matched
NoMatch == [found |-> FALSE, str |-> <<>>]

jsonMatchFirstBalanced(s) ==
  LET opens == {k \in 1..Len(s) : s[k] = "{"}
      first == CHOOSE k \in opens : \A m \in opens : k <= m
      depth(k) == Cardinality({m \in first..k : s[m] = "{"})
                  - Cardinality({m \in first..k : s[m] = "}"})
      ends == {k \in 1..Len(s) : k > first /\ depth(k) = 0}
      end == CHOOSE k \in ends : \A m \in ends : k <= m
  IN IF opens = {} \/ ends = {} THEN NoMatch
     ELSE [found |-> TRUE, str |-> SubSeq(s, first, end)]

\* text.match(/\{[\s\S]*\}/) (part_000:202): the star is greedy, so the
\* match runs from the first "{" to the last "}" after it
jsonMatch(s) ==
  LET opens == {k \in 1..Len(s) : s[k] = "{"}
      first == CHOOSE k \in opens : \A m \in opens : k <= m
      closes == {k \in 1..Len(s) : k > first /\ s[k] = "}"}
      last == CHOOSE k \in closes : \A m \in closes : m <= k
  IN IF opens = {} \/ closes = {} THEN NoMatch
     ELSE [found |-> TRUE, str |-> SubSeq(s, first, last)]

\* JSON.parse (part_000:205) accepts an object: braces that nest, closed
\* by the last character only, around members and objects, without prose
JsonParses(s) ==
  /\ Len(s) >= 2
  /\ s[1] = "{"
  /\ \A k \in 1..Len(s) : s[k] # "w"
  /\ \A k \in 1..Len(s) :
       LET d == Cardinality({m \in 1..k : s[m] = "{"})
                - Cardinality({m \in 1..k : s[m] = "}"})
       IN IF k = Len(s) THEN d = 0 ELSE d > 0

VARIABLES
  rpc,       \* idle; reply: the proxy's answer has arrived; settled
  data,      \* the data of the proxy's answer
  jsonStr,   \* what was handed to JSON.parse, if anything
  settled    \* how processNaturalLanguage settled: resolved or rejected

rvars == <<rpc, data, jsonStr, settled>>

\* no reply is being processed
ReplyIdle ==
  /\ rpc = "idle"
  /\ data = [hasParts |-> FALSE, text |-> <<>>]
  /\ jsonStr = NoMatch
  /\ settled = "none"

\* the proxy answered 2xx with some data (part_000:192)
ReplyInit ==
  /\ rpc = "reply"
  /\ data \in Replys
  /\ jsonStr = NoMatch
  /\ settled = "none"

\* processNaturalLanguage from the answer's data on (part_000:194-213):
\* the matched text is parsed and returned; without parts or a match, or
\* when JSON.parse throws, the function throws
ParseReply ==
  /\ rpc = "reply"
  /\ rpc' = "settled"
  /\ UNCHANGED data
  /\ IF data.hasParts /\ jsonMatch(data.text).found
     THEN /\ jsonStr' = jsonMatch(data.text)
          /\ settled' = IF JsonParses(jsonStr'.str) THEN "resolved"
                         ELSE "rejected"
     ELSE /\ jsonStr' = NoMatch
          /\ settled' = "rejected"

(* ====================================================================== *)
(*          THE TOKEN, GEOCODING AND LANGUAGE-MODEL ENDPOINTS             *)
(* ====================================================================== *)

\* most matches an upstream geocoding answer lists
MaxFeatures == 2

\* the environment: "" stands for a variable that is not set
MapboxTokens == {"", "pk.A", "pk.B"}
GeminiKeys == {"", "gA", "gB"}
Envs ==
  [MAPBOX_TOKEN : MapboxTokens, GEMINI_API_KEY : GeminiKeys]

\* server.js leaves at start-up when a variable is missing
\* (server.js:31-37)
EnvOf(t) ==
  IF t = "server"
  THEN {e \in Envs : e.MAPBOX_TOKEN # "" /\ e.GEMINI_API_KEY # ""}
  ELSE Envs

\* the endpoints of each target that are among the sources; the per-route
\* functions of unnamed/part_001 are the geocoding and the token function
Paths == {"/api/mapbox-token", "/api/mapbox-geocoding", "/api/gemini"}
PathsOf(t) ==
  IF t = "functions" THEN {"/api/mapbox-token", "/api/mapbox-geocoding"}
  ELSE Paths

\* the location of a geocoding request: missing, blank, or a name
Locations == {"", " ", "Paris"}

EndpointRequests ==
  {[target |-> t, path |-> p, location |-> l] :
     t \in Targets, p \in Paths, l \in Locations}

\* an upstream answer: an HTTP response with a JSON body, a response
\* whose body is no JSON, no answer in time, or a failure of the call
Centers == {"x1", "x2"}
Upstreams ==
  {[kind |-> k, status |-> st, hasFeatures |-> TRUE, features |-> fs] :
     k \in {"response", "nonJson"}, st \in {200, 401, 500},
     fs \in BoundedSeq(Centers, MaxFeatures)}
  \cup {[kind |-> "response", status |-> 200, hasFeatures |-> FALSE,
          features |-> <<>>]}
  \cup {[kind |-> k, status |-> 0, hasFeatures |-> FALSE, features |-> <<>>] :
          k \in {"network", "timeout"}}

\* what the client receives: the status, the shape of the body, and the
\* values the body carries
EResponse(status, shape) ==
  [status |-> status, shape |-> shape, token |-> "", coordinates |-> "",
   features |-> <<>>]

NoEResponse == EResponse(0, "none")

VARIABLES
  epc,        \* idle; request: a request has arrived; done
  env,        \* the environment of the target
  ereq,       \* the request
  ecalls,     \* the upstream calls the handler issued
  eanswers,   \* the upstream answers it received
  eresponse   \* the response sent to the client

evars == <<epc, env, ereq, ecalls, eanswers, eresponse>>

\* no request is being handled
EndpointIdle ==
  /\ epc = "idle"
  /\ env = [MAPBOX_TOKEN |-> "", GEMINI_API_KEY |-> ""]
  /\ ereq = [target |-> "worker", path |-> "/api/mapbox-token", location |-> ""]
  /\ ecalls = <<>>
  /\ eanswers = <<>>
  /\ eresponse = NoEResponse

\* a request has arrived at an endpoint of a target
EndpointInit ==
  /\ epc = "request"
  /\ ereq \in EndpointRequests
  /\ ereq.path \in PathsOf(ereq.target)
  /\ env \in EnvOf(ereq.target)
  /\ ecalls = <<>>
  /\ eanswers = <<>>
  /\ eresponse = NoEResponse

\* an upstream call of these endpoints, with the key it carries
UpstreamCall(service, location, key, limit) ==
  [service |-> service, location |-> location, key |-> key, limit |-> limit]

\* GET /api/mapbox-token (server.js:175-188, worker.js:45-58,
\* api/worker.js:18-31, unnamed/part_001:90-120)
handleMapboxToken(t, e) ==
  IF e.MAPBOX_TOKEN = ""
  THEN EResponse(500, "error")
  ELSE [EResponse(200, "token") EXCEPT !.token = e.MAPBOX_TOKEN]

\* the location is refused (server.js:133, worker.js:66)
InvalidLocation(t, location) ==
  IF t = "server" THEN location \in {"", " "} ELSE location = ""

\* the upstream call of the geocoding handler (server.js:139-147,
\* worker.js:73-74)
GeocodingCall(t, e, location) ==
  UpstreamCall("geocoding", location, e.MAPBOX_TOKEN,
               IF t = "server" THEN "1" ELSE Undefined)

\* POST /api/mapbox-geocoding of server.js (129-172): axios throws on
\* every answer that is not 2xx, and the whole upstream body is returned
ServerGeocoding(up) ==
  IF up.kind \in {"network", "timeout"} \/ ~Ok(up.status)
  THEN EResponse(500, "error")
  ELSE IF up.kind = "nonJson" \/ ~up.hasFeatures \/ Len(up.features) = 0
  THEN EResponse(404, "error")
  ELSE [EResponse(200, "data") EXCEPT !.features = up.features]

\* handleMapboxGeocoding of worker.js (61-105), api/worker.js (34-78) and
\* onRequestPost of unnamed/part_001 (1-76)
WorkerGeocoding(up) ==
  IF up.kind \in {"network", "timeout", "nonJson"}
  THEN EResponse(500, "error")
  ELSE IF ~Ok(up.status)
  THEN EResponse(up.status, "error")
  ELSE IF up.hasFeatures /\ Len(up.features) > 0
  THEN [EResponse(200, "coordinates") EXCEPT !.coordinates = up.features[1]]
  ELSE EResponse(404, "error")

\* POST /api/gemini of server.js (191-254)
ServerGemini(up) ==
  IF up.kind = "timeout" THEN EResponse(504, "error")
  ELSE IF up.kind = "network" \/ ~Ok(up.status) THEN EResponse(500, "error")
  ELSE EResponse(200, "data")

\* handleGeminiRequest of worker.js (231-273) and api/worker.js (204-246)
WorkerGemini(up) ==
  IF up.kind \in {"network", "timeout", "nonJson"}
  THEN EResponse(500, "error")
  ELSE IF ~Ok(up.status) THEN EResponse(up.status, "error")
  ELSE EResponse(200, "data")

\* The token endpoint answers.
HandleToken ==
  /\ epc = "request"
  /\ ereq.path = "/api/mapbox-token"
  /\ eresponse' = handleMapboxToken(ereq.target, env)
  /\ epc' = "done"
  /\ UNCHANGED <<env, ereq, ecalls, eanswers>>

\* The geocoding endpoint answers: a location it refuses gets 400 without
\* an upstream call; otherwise the upstream is called once.
HandleGeocoding(up) ==
  /\ epc = "request"
  /\ ereq.path = "/api/mapbox-geocoding"
  /\ epc' = "done"
  /\ UNCHANGED <<env, ereq>>
  /\ IF InvalidLocation(ereq.target, ereq.location)
     THEN /\ eresponse' = EResponse(400, "error")
          /\ UNCHANGED <<ecalls, eanswers>>
     ELSE /\ ecalls' = <<GeocodingCall(ereq.target, env, ereq.location)>>
          /\ eanswers' = <<up>>
          /\ eresponse' = IF ereq.target = "server" THEN ServerGeocoding(up)
                           ELSE WorkerGeocoding(up)

\* The language-model endpoint answers: a worker without its key answers
\* 500 without an upstream call.
HandleGemini(up) ==
  /\ epc = "request"
  /\ ereq.path = "/api/gemini"
  /\ epc' = "done"
  /\ UNCHANGED <<env, ereq>>
  /\ IF ereq.target # "server" /\ env.GEMINI_API_KEY = ""
     THEN /\ eresponse' = EResponse(500, "error")
          /\ UNCHANGED <<ecalls, eanswers>>
     ELSE /\ ecalls' = <<UpstreamCall("gemini", "", env.GEMINI_API_KEY,
                                      Undefined)>>
          /\ eanswers' = <<up>>
          /\ eresponse' = IF ereq.target = "server" THEN ServerGemini(up)
                           ELSE WorkerGemini(up)

(* ====================================================================== *)
(*                 SEARCHES THAT OVERLAP IN ONE PAGE                      *)
(* ====================================================================== *)

\* number of clicks on the search button
MaxSearches == 3

\* the searches of the page, numbered in the order of their clicks
Searches == 1..MaxSearches

\* the route the directions proxy returns for a search
RouteOf(s) == <<"route", s>>

VARIABLES
  stage,         \* of each search: idle, racing, geocoding, directions, done
  setDataCalls,  \* the searches whose route was given to source.setData,
                 \* in the order of the calls
  routeSource,   \* the data of the map's 'route' source
  indicator,     \* the loading indicator, which the searches share
  alerted        \* the searches that raised an alert, in order

ovars == <<stage, setDataCalls, routeSource, indicator, alerted>>

OverlapInit ==
  /\ stage = [s \in Searches |-> "idle"]
  /\ setDataCalls = <<>>
  /\ routeSource = ""
  /\ indicator = "hidden"
  /\ alerted = <<>>

\* The button is clicked once more (part_000:89-111). Nothing in the
\* handler looks at a search that is in flight: the button is not
\* disabled and no earlier search is cancelled.
OverlapClick(s, blank) ==
  /\ stage[s] = "idle"
  /\ \A t \in Searches : t < s => stage[t] # "idle"
  /\ UNCHANGED <<setDataCalls, routeSource>>
  /\ IF blank
     THEN /\ alerted' = Append(alerted, s)
          /\ stage' = [stage EXCEPT ![s] = "done"]
          /\ UNCHANGED indicator
     ELSE /\ indicator' = "Processing your request..."
          /\ stage' = [stage EXCEPT ![s] = "racing"]
          /\ UNCHANGED alerted

\* The race of a search is decided and getRouteCoordinates runs
\* (part_000:113-139, 284-321): an empty list is refused, otherwise the
\* geocode calls are issued.
OverlapLocate(s, empty) ==
  /\ stage[s] = "racing"
  /\ UNCHANGED <<setDataCalls, routeSource>>
  /\ IF empty
     THEN /\ alerted' = Append(alerted, s)
          /\ indicator' = "hidden"
          /\ stage' = [stage EXCEPT ![s] = "done"]
     ELSE /\ indicator' = "Finding route..."
          /\ stage' = [stage EXCEPT ![s] = "geocoding"]
          /\ UNCHANGED alerted

\* Promise.all of a search settles (part_000:324-343, 390-395): the
\* directions call is issued, or the failure is alerted.
OverlapGeocoded(s, ok) ==
  /\ stage[s] = "geocoding"
  /\ UNCHANGED <<setDataCalls, routeSource>>
  /\ IF ok
     THEN /\ stage' = [stage EXCEPT ![s] = "directions"]
          /\ UNCHANGED <<alerted, indicator>>
     ELSE /\ alerted' = Append(alerted, s)
          /\ indicator' = "hidden"
          /\ stage' = [stage EXCEPT ![s] = "done"]

setDataKeepsFirst(current, route) == IF current = "" THEN route ELSE current

\* source.setData(...) replaces the data of the source (part_000:360-364)
setData(current, route) == route

\* The directions call of a search settles (part_000:344-395): a route is
\* given to the map's single 'route' source when the map is ready.
OverlapDirections(s, reply, mapState) ==
  /\ stage[s] = "directions"
  /\ stage' = [stage EXCEPT ![s] = "done"]
  /\ indicator' = "hidden"
  /\ IF reply.kind = "ok" /\ reply.route # ""
     THEN /\ UNCHANGED alerted
          /\ IF mapState = "ready"
             THEN /\ routeSource' = setData(routeSource, RouteOf(s))
                  /\ setDataCalls' = Append(setDataCalls, s)
             ELSE UNCHANGED <<routeSource, setDataCalls>>
     ELSE /\ alerted' = Append(alerted, s)
          /\ UNCHANGED <<routeSource, setDataCalls>>

(* ====================================================================== *)
(*                 THE CORS HEADERS OF worker.js                          *)
(* ====================================================================== *)

\* worker.js:7-12
ALLOWED_ORIGINS ==
  <<"https://yourdomain.com", "https://route-visualization.pages.dev",
    "http://localhost:3000", "http://localhost:8788">>

\* Array.prototype.includes: strict equality with an element
Includes(list, x) == \E k \in 1..Len(list) : list[k] = x

\* the Origin header of a request: absent (headers.get returns null), empty,
\* a listed origin, or an origin that is not listed, among them one that
\* extends a listed origin and one that differs from it in letter case
Origins ==
  {Undefined, "", "https://evil.example", "https://yourdomain.com.evil.example",
   "HTTPS://YOURDOMAIN.COM"}
  \cup {ALLOWED_ORIGINS[k] : k \in 1..Len(ALLOWED_ORIGINS)}

Methods == {"GET", "POST", "OPTIONS"}

Pathnames ==
  {"/api/mapbox-token", "/api/mapbox-geocoding", "/api/mapbox-directions",
   "/api/gemini", "/", "/script.js"}

\* the method each API route answers to (worker.js:290-320)
ApiMethod(pathname) ==
  CASE pathname = "/api/mapbox-token" -> "GET"
    [] pathname \in {"/api/mapbox-geocoding", "/api/mapbox-directions",
                     "/api/gemini"} -> "POST"
    [] OTHER -> Undefined

WorkerRequests ==
  [origin : Origins, method : Methods, pathname : Pathnames]

VARIABLES
  wpc,          \* idle; request: a request has arrived; done
  wreq,         \* the request: its Origin header, method and path
  corsHeaders,  \* the Access-Control-Allow-Origin handleCors computed
  wresponse     \* the response: its kind and its Access-Control-Allow-Origin

cvars == <<wpc, wreq, corsHeaders, wresponse>>

NoWResponse == [kind |-> "none", allowOrigin |-> Undefined]

\* no request is being handled
CorsIdle ==
  /\ wpc = "idle"
  /\ wreq = [origin |-> Undefined, method |-> "GET", pathname |-> "/"]
  /\ corsHeaders = Undefined
  /\ wresponse = NoWResponse

\* a request has arrived at the worker
CorsInit ==
  /\ wpc = "request"
  /\ wreq \in WorkerRequests
  /\ corsHeaders = Undefined
  /\ wresponse = NoWResponse

handleCorsReflecting(origin) ==
  IF origin \notin {Undefined, ""} THEN origin ELSE ALLOWED_ORIGINS[1]

\* handleCors (worker.js:15-31): the Access-Control-Allow-Origin header
handleCors(origin) ==
  IF origin \notin {Undefined, ""} /\ Includes(ALLOWED_ORIGINS, origin)
  THEN origin
  ELSE ALLOWED_ORIGINS[1]

\* what env.__STATIC_CONTENT.get does for the path (worker.js:327-336)
AssetLookups == {"found", "absent", "throws"}

\* fetch of worker.js (277-366): the headers are computed first; the
\* preflight, the API routes and the final 404 carry them, a static asset
\* does not. The index page is served whatever the store returns; a
\* lookup that throws is logged and ends in the 404.
WorkerFetch(asset) ==
  /\ wpc = "request"
  /\ wpc' = "done"
  /\ UNCHANGED wreq
  /\ corsHeaders' = handleCors(wreq.origin)
  /\ wresponse' =
       IF wreq.method = "OPTIONS"
       THEN [kind |-> "preflight", allowOrigin |-> corsHeaders']
       ELSE IF ApiMethod(wreq.pathname) = wreq.method
       THEN [kind |-> "api", allowOrigin |-> corsHeaders']
       ELSE IF /\ wreq.method = "GET"
               /\ asset # "throws"
               /\ (wreq.pathname = "/" \/ asset = "found")
       THEN [kind |-> "static", allowOrigin |-> Undefined]
       ELSE [kind |-> "notFound", allowOrigin |-> corsHeaders']

(* --------------------------- specifications --------------------------- *)

vars == <<dvars, svars, xvars, rvars, evars, ovars, cvars>>

Init ==
  /\ DirInit /\ SearchInit /\ ExtractIdle /\ ReplyIdle /\ EndpointIdle
  /\ OverlapInit /\ CorsIdle

\* one directions request at a deployment target
Next ==
  \/ \E t \in Targets, req \in Requests :
       DirectionsRequest(t, req) /\ UNCHANGED <<svars, xvars, rvars, evars, ovars, cvars>>
  \/ \E reply \in Replies :
       FirstResponse(reply) /\ UNCHANGED <<svars, xvars, rvars, evars, ovars, cvars>>
  \/ \E reply \in Replies :
       RetryResponse(reply) /\ UNCHANGED <<svars, xvars, rvars, evars, ovars, cvars>>
  \/ \E reply \in Replies :
       FinalResponse(reply) /\ UNCHANGED <<svars, xvars, rvars, evars, ovars, cvars>>

Spec == Init /\ [][Next]_vars

\* one search in the browser
SearchNext ==
  \/ \E text_ \in Texts : Click(text_) /\ UNCHANGED <<dvars, xvars, rvars, evars, ovars, cvars>>
  \/ \E res \in LlmResults : LlmResolve(res) /\ UNCHANGED <<dvars, xvars, rvars, evars, ovars, cvars>>
  \/ \E reason \in LlmFailures :
       LlmReject(reason) /\ UNCHANGED <<dvars, xvars, rvars, evars, ovars, cvars>>
  \/ TimerFire /\ UNCHANGED <<dvars, xvars, rvars, evars, ovars, cvars>>
  \/ \E i \in 1..(MaxLocs + 1), out \in GeoOutcomes :
       GeocodeSettle(i, out) /\ UNCHANGED <<dvars, xvars, rvars, evars, ovars, cvars>>
  \/ \E reply \in FrontReplies, mapState \in MapStates :
       DirectionsSettle(reply, mapState) /\ UNCHANGED <<dvars, xvars, rvars, evars, ovars, cvars>>

SearchSpec == Init /\ [][SearchNext]_vars

\* the variables a search leaves alone
NotSearch == <<dvars, xvars, rvars, evars, ovars, cvars>>

\* The deadline timer fires when its time has come, and every call that was
\* issued settles: a geocode call and the directions call get an answer or
\* fail.
SearchFairness ==
  /\ WF_vars(TimerFire /\ UNCHANGED NotSearch)
  /\ WF_vars(\E i \in 1..(MaxLocs + 1), out \in GeoOutcomes :
               GeocodeSettle(i, out) /\ UNCHANGED NotSearch)
  /\ WF_vars(\E reply \in FrontReplies, mapState \in MapStates :
               DirectionsSettle(reply, mapState) /\ UNCHANGED NotSearch)

\* one search in the browser whose timer and calls do settle
SearchLiveSpec == Init /\ [][SearchNext]_vars /\ SearchFairness

\* the pattern extraction applied to one text, and to its single result
ExtractNext ==
  \/ Extract /\ UNCHANGED <<dvars, svars, rvars, evars, ovars, cvars>>
  \/ ExtractAgain /\ UNCHANGED <<dvars, svars, rvars, evars, ovars, cvars>>

ExtractSpecInit ==
  /\ DirInit /\ SearchInit /\ ExtractInit /\ ReplyIdle /\ EndpointIdle
  /\ OverlapInit /\ CorsIdle

ExtractSpec == ExtractSpecInit /\ [][ExtractNext]_vars

\* processNaturalLanguage applied to one answer of the proxy
ReplyNext == ParseReply /\ UNCHANGED <<dvars, svars, xvars, evars, ovars, cvars>>

ReplySpecInit ==
  /\ DirInit /\ SearchInit /\ ExtractIdle /\ ReplyInit /\ EndpointIdle
  /\ OverlapInit /\ CorsIdle

ReplySpec == ReplySpecInit /\ [][ReplyNext]_vars

\* one request at the token, geocoding or language-model endpoint
EndpointNext ==
  \/ HandleToken /\ UNCHANGED <<dvars, svars, xvars, rvars, ovars, cvars>>
  \/ \E up \in Upstreams :
       HandleGeocoding(up) /\ UNCHANGED <<dvars, svars, xvars, rvars, ovars, cvars>>
  \/ \E up \in Upstreams :
       HandleGemini(up) /\ UNCHANGED <<dvars, svars, xvars, rvars, ovars, cvars>>

EndpointSpecInit ==
  /\ DirInit /\ SearchInit /\ ExtractIdle /\ ReplyIdle /\ EndpointInit
  /\ OverlapInit /\ CorsIdle

EndpointSpec == EndpointSpecInit /\ [][EndpointNext]_vars

\* searches started one after the other in one page, in every interleaving
OverlapNext ==
  \/ \E s \in Searches, blank \in BOOLEAN :
       OverlapClick(s, blank) /\ UNCHANGED <<dvars, svars, xvars, rvars, evars, cvars>>
  \/ \E s \in Searches, empty \in BOOLEAN :
       OverlapLocate(s, empty) /\ UNCHANGED <<dvars, svars, xvars, rvars, evars, cvars>>
  \/ \E s \in Searches, ok \in BOOLEAN :
       OverlapGeocoded(s, ok) /\ UNCHANGED <<dvars, svars, xvars, rvars, evars, cvars>>
  \/ \E s \in Searches, reply \in FrontReplies, mapState \in MapStates :
       OverlapDirections(s, reply, mapState)
       /\ UNCHANGED <<dvars, svars, xvars, rvars, evars, cvars>>

OverlapSpec == Init /\ [][OverlapNext]_vars

\* one request at the worker of worker.js
CorsNext ==
  \E asset \in AssetLookups :
    WorkerFetch(asset) /\ UNCHANGED <<dvars, svars, xvars, rvars, evars, ovars>>

CorsSpecInit ==
  /\ DirInit /\ SearchInit /\ ExtractIdle /\ ReplyIdle /\ EndpointIdle
  /\ OverlapInit /\ CorsInit

CorsSpec == CorsSpecInit /\ [][CorsNext]_vars

(* ====================================================================== *)
(*                 CLAIMS ABOUT THE DIRECTIONS PROXY                      *)
(* ====================================================================== *)

\* the first answer is the structural-invalid rejection
FirstIsInvalidInput ==
  /\ Len(replies) >= 1
  /\ replies[1].kind = "response"
  /\ replies[1].status = 422
  /\ replies[1].code = "InvalidInput"

\* C1: every directions request leads to at most two upstream calls, and
\* every call after the first is the first call again (same coordinate
\* list, profile and query parameters).
C1_AtMostTwoIdenticalCalls ==
  /\ Len(calls) <= 2
  /\ \A i \in 1..Len(calls) : calls[i] = calls[1]

\* C2: in a target with a retry, a first answer 422/InvalidInput followed
\* by a 2xx answer with at least one route ends the request with status 200
\* and the second answer's routes[0], after exactly two identical calls.
C2_RetrySuccess ==
  (/\ target \in RetryTargets
   /\ FirstIsInvalidInput
   /\ Len(replies) >= 2
   /\ replies[2].kind = "response"
   /\ replies[2].status \in 200..299
   /\ replies[2].hasRoutes
   /\ Len(replies[2].routes) >= 1)
  => /\ dpc = "done"
     /\ response.status = 200
     /\ response.shape = "route"
     /\ response.route = replies[2].routes[1]
     /\ Len(calls) = 2
     /\ calls[2] = calls[1]

\* a retry that succeeded with several routes, the first of which is not
\* the last
C2_Witness ==
  /\ target \in RetryTargets
  /\ FirstIsInvalidInput
  /\ Len(replies) = 2
  /\ replies[2].kind = "response"
  /\ replies[2].status = 200
  /\ Len(replies[2].routes) = 2
  /\ replies[2].routes[1] # replies[2].routes[2]
  /\ response.status = 200

\* C3: in every target, a first answer that is 2xx with an empty or missing
\* routes list ends the request with 404 after exactly one upstream call.
C3_ZeroRoutesNoRetry ==
  (/\ Len(replies) >= 1
   /\ replies[1].kind = "response"
   /\ replies[1].status \in 200..299
   /\ (~replies[1].hasRoutes \/ Len(replies[1].routes) = 0))
  => /\ dpc = "done"
     /\ response.status = 404
     /\ response.shape = "error"
     /\ Len(calls) = 1
     /\ Len(replies) = 1

\* a worker answered a first 2xx answer whose routes list is missing
C3_Witness ==
  /\ target = "worker"
  /\ Len(replies) = 1
  /\ replies[1].kind = "response"
  /\ replies[1].status = 200
  /\ ~replies[1].hasRoutes
  /\ response.status = 404

\* C4: in a target with a retry, a second upstream call is issued exactly
\* when the first answer is 422 with code InvalidInput; every other non-2xx
\* first answer ends the request at once with the upstream's status.
C4_RetryIffInvalidInput ==
  (target \in RetryTargets /\ Len(replies) >= 1)
  => /\ (Len(calls) >= 2) <=> FirstIsInvalidInput
     /\ (/\ replies[1].kind = "response"
         /\ ~(replies[1].status \in 200..299)
         /\ ~FirstIsInvalidInput)
        => /\ dpc = "done"
           /\ response.status = replies[1].status
           /\ response.shape = "error"
           /\ Len(calls) = 1
           /\ outstanding = 0

\* a 422 with another code was passed through without a retry
C4_Witness ==
  /\ target \in RetryTargets
  /\ Len(replies) = 1
  /\ replies[1].kind = "response"
  /\ replies[1].status = 422
  /\ replies[1].code # "InvalidInput"
  /\ dpc = "done"
  /\ response.status = 422

\* the profile the claim expects in the upstream URL
ExpectedProfile(profile) ==
  CASE profile \in {"walk", "on foot", "walking"} -> "walking"
    [] profile \in {"bicycle", "bike", "cycling"} -> "cycling"
    [] OTHER -> "driving"

\* C8: in the per-route function and in worker.js, the profile of every
\* upstream directions call is one of driving, walking, cycling, obtained
\* from the request's profile by the synonym mapping, with driving for
\* every other or missing value.
C8_ProfileNormalized ==
  \A i \in 1..Len(calls) :
    target \in {"functions", "worker"} =>
    /\ calls[i].url.profile \in {"driving", "walking", "cycling"}
    /\ calls[i].url.profile = ExpectedProfile(request.profile)

(* ====================================================================== *)
(*                 CLAIMS ABOUT THE BROWSER-SIDE SEARCH                   *)
(* ====================================================================== *)

\* C5: a search whose location list has one entry, geocoded successfully,
\* ends without a directions call and without an error shown to the user.
C5_SingleLocationIsSuccess ==
  (Len(locations) = 1 /\ allState = "fulfilled")
  => (dirCalls = <<>> /\ alerts = <<>>)

\* C6: once a geocode call of the search has failed, the search has ended
\* with exactly one alert, which names a location whose geocode call
\* failed, and no directions call has been issued, whatever the other
\* geocode calls did and in whatever order.
C6_GeocodeFailureAborts ==
  (\E i \in DOMAIN geo : geo[i].state = "failed")
  => /\ dirCalls = <<>>
     /\ spc = "done"
     /\ Len(alerts) = 1
     /\ alerts[1].text = "Error: Unable to find on the map"
     /\ \E j \in DOMAIN geo :
          geo[j].state = "failed" /\ alerts[1].name = locations[j]

\* a search of three locations in which one geocode call resolved, one
\* failed and, after the alert, the third resolved as well
C6_Witness ==
  /\ Len(locations) = 3
  /\ geo[1].state = "ok"
  /\ geo[2].state = "failed"
  /\ geo[3].state = "ok"
  /\ Len(alerts) = 1
  /\ alerts[1].name = locations[2]

\* C7: the coordinate list of a directions call has, at every position i,
\* the coordinate the geocode call of the i-th location resolved with.
C7_CoordinatesInInputOrder ==
  \A k \in 1..Len(dirCalls) :
    /\ geocodeCalls = locations
    /\ Len(dirCalls[k].coordinates) = Len(locations)
    /\ \A i \in 1..Len(locations) :
         /\ geo[i].state = "ok"
         /\ dirCalls[k].coordinates[i] = geo[i].coord

\* a directions call for three locations whose geocode calls did not all
\* resolve to the same coordinate
C7_Witness ==
  /\ Len(dirCalls) = 1
  /\ Len(locations) = 3
  /\ geo[1].coord # geo[2].coord
  /\ geo[2].coord = geo[3].coord

\* the defaults getRouteCoordinates uses when it is given no preferences
DefaultsUsed ==
  preferences = [kind |-> "object", transportMode |-> "driving",
                 avoidTolls |-> "false", avoidHighways |-> "false",
                 avoidFerries |-> "false"]

\* the search went on with the fallback: one call of getRouteCoordinates,
\* with the pattern extractor's locations when there are two or more of
\* them and from the raw input otherwise, and default preferences
FallbackStarted ==
  LET regexLocations == extractLocationsWithRegex(inputValue) IN
  /\ race = "rejected"
  /\ Len(grcCalls) = 1
  /\ DefaultsUsed
  /\ locations = grcCalls[1].locations
  /\ IF Len(regexLocations) >= 2
     THEN /\ grcCalls[1].source = "regex"
          /\ locations = regexLocations
          /\ geocodeCalls = regexLocations
     ELSE /\ grcCalls[1].source = "raw"
          /\ locations = PatternExtract(inputValue)
          /\ geocodeCalls = locations
          /\ (locations = <<>> => Len(alerts) = 1)

\* C9: when the timer fires before the extraction has settled, or the
\* extraction fails before the timer has fired, the race is lost in that
\* step; and whenever it is lost, the handler has gone on with the
\* fallback.
C9_FallbackOnTimeoutOrFailure ==
  /\ [](race = "rejected" => FallbackStarted)
  /\ [][(race = "pending" /\ (timer' = "fired" \/ llm' \in LlmFailures))
        => race' = "rejected"]_vars

\* the timer won the race for a text in which the pattern extractor finds
\* one location only, and the lookup went on from the raw input
C9_Witness ==
  /\ race = "rejected"
  /\ timer = "fired"
  /\ llm = "pending"
  /\ Len(extractLocationsWithRegex(inputValue)) = 1
  /\ Len(geocodeCalls) = 1
  /\ spc = "geocoding"

\* what a search has done that the user or a server can observe
SearchEffects == <<race, result, spc, grcCalls, locations, preferences,
                   geocodeCalls, dirCalls, alerts, loading, mapRoute,
                   allState, allValues>>

\* C10: once the race of a click is decided, getRouteCoordinates has been
\* called exactly once and there is at most one batch of geocode calls and
\* one directions call; the settlement of the race's loser changes nothing.
C10_StartedExactlyOnce ==
  [][/\ (race' \in {"fulfilled", "rejected"}
           => /\ Len(grcCalls') = 1
              /\ Len(geocodeCalls') = Len(grcCalls'[1].locations)
              /\ Len(dirCalls') <= 1)
     /\ (race \in {"fulfilled", "rejected"} /\ (llm' # llm \/ timer' # timer)
           => UNCHANGED SearchEffects)]_vars

\* both the language-model call and the timer have settled, in either
\* order, and the search has gone on to its directions call
C10_Witness ==
  /\ race = "rejected"
  /\ timer = "fired"
  /\ llm = "resolved"
  /\ Len(dirCalls) = 1

(* ---------------------------------------------------------------------- *)

\* the locations the catch branch goes on with (part_000:131-138)
FallbackLocations ==
  LET regexLocations == extractLocationsWithRegex(inputValue) IN
  IF Len(regexLocations) >= 2 THEN regexLocations
  ELSE PatternExtract(inputValue)

\* C11 as stated: whenever the extraction path has failed (the race is
\* lost), the search has gone into geocoding: geocode calls were issued for
\* the fallback locations, and no alert was raised before a geocode or
\* directions call settled.
C11_AlwaysIntoGeocoding ==
  race = "rejected"
  => /\ geocodeCalls # <<>>
     /\ geocodeCalls = FallbackLocations
     /\ (spc = "geocoding" /\ allState = "pending" => alerts = <<>>)

\* C11, amended: in the step in which the extraction path fails (the race
\* is lost to the timer or to a rejection), no alert is raised and geocode
\* calls for the fallback locations are issued when there is at least one
\* of them; when there is none, the only alert is the prompt to reformat
\* the input and no geocode call is issued.
C11_FailureRecovered ==
  [][(race = "pending" /\ race' = "rejected")
     => IF FallbackLocations = <<>>
        THEN /\ alerts' = <<Alert("Please enter valid locations", <<>>)>>
             /\ geocodeCalls' = <<>>
             /\ spc' = "done"
             /\ loading' = "hidden"
        ELSE /\ alerts' = <<>>
             /\ geocodeCalls' = FallbackLocations
             /\ spc' = "geocoding"
             /\ loading' = "Finding route..."]_vars

\* the reply held an object that JSON.parse refused, and the search is
\* geocoding the two locations of the typed text
C11_Witness ==
  /\ llm = "parseException"
  /\ race = "rejected"
  /\ timer = "pending"
  /\ spc = "geocoding"
  /\ Len(geocodeCalls) = 2
  /\ alerts = <<>>

(* ====================================================================== *)
(*                 CLAIMS ABOUT THE PATTERN EXTRACTION                    *)
(* ====================================================================== *)

\* the separator of the claims' texts
ToSeparator == <<" ", "t", "o", " ">>

\* s has an embedded ' to '
Embedded(s) ==
  \E k \in 1..(Len(s) - 3) : SubSeq(s, k, k + 3) = ToSeparator

\* s is '<A> to <B>' with the separator at i, A and B non-empty and
\* without an embedded ' to '
IsAToB(s, i) ==
  /\ i \in 2..(Len(s) - 4)
  /\ SubSeq(s, i, i + 3) = ToSeparator
  /\ ~Embedded(SubSeq(s, 1, i - 1))
  /\ ~Embedded(SubSeq(s, i + 4, Len(s)))

\* A and B of '<A> to <B>' are plain names: neither begins or ends with
\* white space, and the separator at i is the only place of s where white
\* space, 'to' in any letter case, white space matches
PlainNames(s, i) ==
  /\ ~IsSpace(s[1]) /\ ~IsSpace(s[i - 1])
  /\ ~IsSpace(s[i + 4]) /\ ~IsSpace(s[Len(s)])
  /\ {k \in 1..Len(s) : MatchToAt(s, k)[1]} = {i}

\* C12 as stated: every text '<A> to <B>' with A and B non-empty and
\* without an embedded ' to ' is extracted to the list [A, B].
C12_EveryAToB ==
  xpc = "extracted"
  => \A i \in 1..Len(text) :
       IsAToB(text, i)
       => extracted = <<SubSeq(text, 1, i - 1), SubSeq(text, i + 4, Len(text))>>

\* C12, amended: a text '<A> to <B>' is extracted to [A, B] when A and B
\* are plain names, the text does not begin with 'from ' in any letter
\* case and B does not end in '.', '!' or '?'.
C12_PlainAToB ==
  xpc = "extracted"
  => \A i \in 1..Len(text) :
       (/\ IsAToB(text, i)
        /\ PlainNames(text, i)
        /\ ~startsWithFrom(text)
        /\ text[Len(text)] \notin PunctuationMarks)
       => extracted = <<SubSeq(text, 1, i - 1), SubSeq(text, i + 4, Len(text))>>

\* a text '<A> to <B>' whose A holds the letters 'to' was extracted to
\* [A, B]
C12_Witness ==
  /\ xpc = "extracted"
  /\ IsAToB(text, 4) /\ PlainNames(text, 4) /\ ~startsWithFrom(text)
  /\ text[Len(text)] \notin PunctuationMarks
  /\ SubSeq(text, 1, 3) = <<"a", "t", "o">>
  /\ extracted = <<SubSeq(text, 1, 3), SubSeq(text, 8, Len(text))>>

\* s begins with 'from ' in some letter case
HasFromPrefix(s) ==
  /\ Len(s) >= 5
  /\ s[1] \in {"f", "F"} /\ s[2] \in {"r", "R"} /\ s[3] \in {"o", "O"}
  /\ s[4] \in {"m", "M"} /\ s[5] = " "

\* where the trailing run of '.', '!' and '?' of s begins: Len(s) + 1 when
\* s does not end in one of them
RunStart(s) ==
  CHOOSE j \in 1..(Len(s) + 1) :
    /\ \A k \in j..Len(s) : s[k] \in PunctuationMarks
    /\ (j = 1 \/ s[j - 1] \notin PunctuationMarks)

\* what s has between its 5-character prefix and its trailing run
Inner(s) == SubSeq(s, 6, RunStart(s) - 1)

\* s is 'From <A> to <B>' followed by one or more of '.', '!', '?'
IsFromAToBMarks(s, i) ==
  /\ HasFromPrefix(s)
  /\ RunStart(s) <= Len(s)
  /\ IsAToB(Inner(s), i)

\* C13 as stated: every text 'From <A> to <B>' followed by one or more
\* '.', '!' or '?' is extracted to [A, B].
C13_EveryFromAToB ==
  xpc = "extracted"
  => \A i \in 1..Len(text) :
       IsFromAToBMarks(text, i)
       => extracted = <<SubSeq(Inner(text), 1, i - 1),
                        SubSeq(Inner(text), i + 4, Len(Inner(text)))>>

\* C13, amended: a text 'From <A> to <B>' followed by one or more '.', '!'
\* or '?', the prefix in any letter case, is extracted to [A, B] when A and
\* B are plain names: the 5-character prefix and the whole trailing run
\* are removed and nothing else.
C13_PlainFromAToB ==
  xpc = "extracted"
  => \A i \in 1..Len(text) :
       (IsFromAToBMarks(text, i) /\ PlainNames(Inner(text), i))
       => extracted = <<SubSeq(Inner(text), 1, i - 1),
                        SubSeq(Inner(text), i + 4, Len(Inner(text)))>>

\* 'From a to a?!', with a run of two marks, was extracted to two names
C13_Witness ==
  /\ xpc = "extracted"
  /\ IsFromAToBMarks(text, 2) /\ PlainNames(Inner(text), 2)
  /\ RunStart(text) = Len(text) - 1
  /\ extracted = <<SubSeq(text, 6, 6), SubSeq(text, 11, 11)>>

\* C14: when the pattern extraction of a text yields the one-element list
\* [N], the pattern extraction of N yields [N] again.
C14_IdempotentOnSingleNames ==
  xpc = "again" => again = extracted

(* ====================================================================== *)
(*               CLAIMS ABOUT THE LANGUAGE MODEL'S REPLY                  *)
(* ====================================================================== *)

\* C15: when the reply text holds a balanced brace block, what is handed
\* to the JSON parser runs from the first "{" to the "}" that balances it,
\* whatever braces follow, and processNaturalLanguage resolves exactly
\* when that block parses; without such a block it fails.
C15_FirstBalancedBlock ==
  (rpc = "settled" /\ data.hasParts)
  => LET block == jsonMatchFirstBalanced(data.text) IN
     IF block.found
     THEN /\ jsonStr = block
          /\ (settled = "resolved" <=> JsonParses(block.str))
     ELSE settled = "rejected"

(* ====================================================================== *)
(*                  CLAIMS ABOUT THE PREFERENCES                          *)
(* ====================================================================== *)

\* the fields of the preferences
PreferenceFields ==
  {"transportMode", "avoidTolls", "avoidHighways", "avoidFerries"}

\* the search works on the locations and preferences of the language
\* model's result
UsesLlmResult ==
  /\ race = "fulfilled"
  /\ Len(grcCalls) = 1
  /\ grcCalls[1].source = "nlp"

\* C16: a preference field that is absent or null in the extraction
\* result is unset in the preferences the search works with, and no
\* directions request carries a value for it (the profile stands for
\* transportMode).
C16_UnsetStaysUnset ==
  UsesLlmResult
  => \A f \in PreferenceFields :
       result.preferences[f] = "null"
       => /\ preferences[f] = "null"
          /\ \A k \in 1..Len(dirCalls) :
               /\ f \notin DOMAIN dirCalls[k]
               /\ (f = "transportMode" => "profile" \notin DOMAIN dirCalls[k])

(* ====================================================================== *)
(*                    CLAIMS ABOUT THE ENDPOINTS                          *)
(* ====================================================================== *)

\* the secrets of an environment
SecretValues(e) == {e.MAPBOX_TOKEN, e.GEMINI_API_KEY} \ {""}

\* the values a response carries to the client
ClientVisible(r) ==
  {r.token, r.coordinates} \cup {r.features[k] : k \in 1..Len(r.features)}

\* C17: no response of a proxy endpoint carries the value of MAPBOX_TOKEN
\* or of GEMINI_API_KEY, so that the responses are the same whatever the
\* values of the secrets.
C17_NoSecretInResponse ==
  epc = "done" => ClientVisible(eresponse) \cap SecretValues(env) = {}

\* what worker.js answers to a directions request whose upstream answers
\* are reps: the number of upstream calls, the status and the shape
WorkerDirections(req, reps) ==
  IF InvalidCoordinates(req.coordinates) THEN <<0, 400, "error">>
  ELSE
    LET first == WorkerFirstOutcome(reps[1]) IN
    CASE first = "throw" -> <<1, 500, "error">>
      [] first = "upstreamError" -> <<1, reps[1].status, "error">>
      [] first = "route" -> <<1, 200, "route">>
      [] first = "noRoutes" -> <<1, 404, "error">>
      [] OTHER ->
           IF reps[2].kind # "response" THEN <<2, 500, "error">>
           ELSE IF ~Ok(reps[2].status) THEN <<2, reps[2].status, "error">>
           ELSE IF SomeRoutes(reps[2]) THEN <<2, 200, "route">>
           ELSE <<2, 404, "error">>

\* every target handles a directions request as worker.js does: the same
\* upstream calls, the same status and the same shape of the response
SameDirections ==
  dpc = "done"
  => /\ <<Len(calls), response.status, response.shape>>
          = WorkerDirections(request, replies)
     /\ \A i \in 1..Len(calls) :
          calls[i] = Call(Url("worker", request), WorkerParams)

\* every target handles a geocoding request as worker.js does
SameGeocoding ==
  (epc = "done" /\ ereq.path = "/api/mapbox-geocoding")
  => IF InvalidLocation("worker", ereq.location)
     THEN /\ ecalls = <<>>
          /\ eresponse = EResponse(400, "error")
     ELSE /\ ecalls = <<GeocodingCall("worker", env, ereq.location)>>
          /\ eresponse.status = WorkerGeocoding(eanswers[1]).status
          /\ eresponse.shape = WorkerGeocoding(eanswers[1]).shape

\* C18: the deployment targets are the identical proxy: for the same
\* directions or geocoding request and the same upstream answers, each
\* issues the upstream calls and returns the status and the response shape
\* that worker.js does.
C18_IdenticalProxy == SameDirections /\ SameGeocoding

(* ====================================================================== *)
(*                CLAIMS ABOUT THE SEARCH'S FAILURES                      *)
(* ====================================================================== *)

\* C19: when the location list getRouteCoordinates obtains is empty, the
\* search ends with the prompt to reformat the input as its only alert,
\* the loading indicator hidden, and no geocode and no directions call,
\* and later settlements change none of this.
C19_EmptyListRejected ==
  (Len(grcCalls) >= 1 /\ grcCalls[1].locations = <<>>)
  => /\ alerts = <<Alert("Please enter valid locations", <<>>)>>
     /\ loading = "hidden"
     /\ geocodeCalls = <<>>
     /\ dirCalls = <<>>
     /\ spc = "done"

\* the language model returned an empty location list for a text of
\* punctuation only, the input was refused, and the timer has fired since
C19_Witness ==
  /\ Len(grcCalls) = 1
  /\ grcCalls[1].source = "raw"
  /\ grcCalls[1].locations = <<>>
  /\ race = "fulfilled"
  /\ result.hasLocations
  /\ timer = "fired"
  /\ loading = "hidden"

\* the directions call failed, or its answer holds no route
DirectionsFailed(reply) == ~(reply.kind = "ok" /\ reply.route # "")

\* C20: a search raises at most one alert; a search that ends before its
\* directions call (blank input, empty list, failed geocode call, single
\* location), or whose directions call fails, has raised exactly one, also
\* when several geocode calls have failed; and a search that has ended
\* does nothing more: no later settlement raises an alert or issues a call.
C20_OneErrorMessage ==
  [][/\ Len(alerts') <= 1
     /\ Len(grcCalls') <= 1
     /\ (spc # "done" /\ spc' = "done" /\ dirCalls' = <<>>)
        => Len(alerts') = 1
     /\ (\E i \in DOMAIN geo' : geo'[i].state = "failed") => Len(alerts') = 1
     /\ \A reply \in FrontReplies, mapState \in MapStates :
          (DirectionsSettle(reply, mapState) /\ DirectionsFailed(reply))
          => Len(alerts') = 1
     /\ spc = "done"
        => UNCHANGED <<spc, alerts, grcCalls, geocodeCalls, dirCalls, loading,
                       mapRoute>>]_vars

\* two geocode calls of a search failed and the third resolved after them,
\* with one alert, naming the location that failed first
C20_Witness ==
  /\ Len(locations) = 3
  /\ geo[1].state = "failed"
  /\ geo[2].state = "ok"
  /\ geo[3].state = "failed"
  /\ geo[1].coord # geo[3].coord
  /\ Len(alerts) = 1
  /\ spc = "done"

(* ====================================================================== *)
(*                 FURTHER CLAIMS ABOUT THE DIRECTIONS PROXY              *)
(* ====================================================================== *)

\* the upstream call whose answer the handler's response was built from:
\* the last one issued
AnsweringCall == calls[Len(calls)]

\* C21: a response with status 200 was computed by an upstream call whose
\* waypoint list is the request's whole coordinate list, in its order.
C21_RouteFromFullList ==
  (dpc = "done" /\ response.status = 200)
  => /\ calls # <<>>
     /\ AnsweringCall.url.coords = request.coordinates.items

(* ====================================================================== *)
(*                 FURTHER CLAIMS ABOUT THE ENDPOINTS                     *)
(* ====================================================================== *)

\* the geocoding handler called the upstream and got a 2xx answer with a
\* JSON body
GeocodedOk ==
  /\ epc = "done"
  /\ ereq.path = "/api/mapbox-geocoding"
  /\ Len(eanswers) = 1
  /\ eanswers[1].kind = "response"
  /\ Ok(eanswers[1].status)

\* the matches of the upstream answer
Matches(up) == IF up.hasFeatures THEN up.features ELSE <<>>

\* C22: on a 2xx upstream answer the geocoding handler answers 404 without
\* coordinates exactly when the upstream listed no match, and otherwise
\* answers 200 with the coordinate of the first match and nothing of the
\* further matches.
C22_FirstMatchOnly ==
  GeocodedOk
  => LET found == Matches(eanswers[1]) IN
     IF found = <<>>
     THEN eresponse.status = 404 /\ eresponse.coordinates = ""
     ELSE /\ eresponse.status = 200
          /\ eresponse.coordinates = found[1]
          /\ eresponse.features = <<>>

(* ====================================================================== *)
(*                 FURTHER CLAIMS ABOUT THE SEARCH                        *)
(* ====================================================================== *)

\* the only geocode call of the search that failed is call i, and it
\* failed for the given cause
OnlyFailure(i, cause) ==
  /\ i \in DOMAIN geo
  /\ geo[i] = [state |-> "failed", coord |-> cause]
  /\ \A k \in DOMAIN geo \ {i} : geo[k].state # "failed"

\* C23: a geocode call that failed because the upstream was unreachable or
\* answered 5xx ends the search with one generic message, which names no
\* location and is not the message of a location that was not found.
C23_UpstreamFailureGeneric ==
  \A i \in DOMAIN geo :
    OnlyFailure(i, "upstream")
    => /\ spc = "done"
       /\ Len(alerts) = 1
       /\ alerts[1].name = <<>>
       /\ alerts[1].text # "Error: Unable to find on the map"

\* C24: the upstream calls of a request are strictly sequential: call k+1
\* is issued only after the answer to call k has arrived, so at most one
\* call is outstanding; and a second call exists only after the first
\* answer was received and was 422/InvalidInput.
C24_RetrySequential ==
  /\ outstanding <= 1
  /\ outstanding = Len(calls) - Len(replies)
  /\ (Len(calls) >= 2 => FirstIsInvalidInput)

\* the retry is outstanding and the original call has been answered
C24_Witness ==
  /\ dpc = "retry"
  /\ Len(calls) = 2
  /\ Len(replies) = 1
  /\ outstanding = 1

\* the query parameters the specification fixes for every directions call
FixedParams(p) ==
  /\ p.alternatives = "false"
  /\ p.geometries = "geojson"
  /\ p.steps = "false"
  /\ p.overview = "full"

\* C25: every upstream directions call, original or retry, carries
\* alternatives=false, geometries=geojson, steps=false and overview=full,
\* whatever the request body holds.
C25_FixedParameters ==
  \A k \in 1..Len(calls) : FixedParams(calls[k].params)

\* the coordinates of the request body are missing, no array, or an array
\* of fewer than two items
TooFewCoordinates ==
  \/ request.coordinates.kind \in {"undefined", "notArray"}
  \/ Len(request.coordinates.items) < 2

\* C26: a request whose coordinates are missing, no array or fewer than
\* two is answered 400 by every target, without an upstream call.
C26_BadCoordinatesRefused ==
  (dpc # "idle" /\ TooFewCoordinates)
  => /\ dpc = "done"
     /\ response.status = 400
     /\ calls = <<>>
     /\ outstanding = 0

\* the Express server has refused a list of one coordinate
C26_Witness ==
  /\ target = "server"
  /\ dpc = "done"
  /\ request.coordinates.kind = "array"
  /\ Len(request.coordinates.items) = 1
  /\ response.status = 400
  /\ calls = <<>>

\* C27: getRouteCoordinates issues exactly one geocode call per location
\* of its list, all of them before any geocode answer is handled, and the
\* directions call exists only when every geocode call of the search has
\* succeeded: never while one is outstanding or after one has failed.
C27_GeocodeThenDirections ==
  /\ (grcCalls # <<>> /\ locations # <<>>)
     => /\ geocodeCalls = locations
        /\ DOMAIN geo = DOMAIN locations
  /\ (\E i \in DOMAIN geo : geo[i].state # "pending")
     => Len(geocodeCalls) = Len(locations)
  /\ dirCalls # <<>>
     => /\ Len(dirCalls) = 1
        /\ \A i \in DOMAIN geo : geo[i].state = "ok"
        /\ Len(dirCalls[1].coordinates) = Len(locations)

\* three locations: two geocode calls have succeeded, the third is still
\* outstanding, and no directions call has been issued
C27_Witness ==
  /\ Len(locations) = 3
  /\ Len(geocodeCalls) = 3
  /\ geo[1].state = "pending"
  /\ geo[2].state = "ok"
  /\ geo[3].state = "ok"
  /\ dirCalls = <<>>
  /\ spc = "geocoding"

\* C28: searches are not serialised. The data of the map's single 'route'
\* source is the route of the search whose directions response was handled
\* last among those that were rendered, whatever the order in which the
\* searches were started; every rendered search has run to its end, and
\* was rendered once.
C28_LastHandledShown ==
  /\ routeSource = IF setDataCalls = <<>> THEN ""
                   ELSE RouteOf(setDataCalls[Len(setDataCalls)])
  /\ \A k \in 1..Len(setDataCalls) : stage[setDataCalls[k]] = "done"
  /\ \A k, m \in 1..Len(setDataCalls) :
       setDataCalls[k] = setDataCalls[m] => k = m

\* a search was started while an earlier one was in flight and was rendered
\* first; every search has ended without an alert, and the map shows the
\* route of the search that was started earlier
C28_Witness ==
  /\ \A s \in Searches : stage[s] = "done"
  /\ Len(setDataCalls) >= 2
  /\ setDataCalls[1] > setDataCalls[2]
  /\ setDataCalls[Len(setDataCalls)] = setDataCalls[2]
  /\ routeSource = RouteOf(setDataCalls[2])
  /\ alerted = <<>>

\* C29: a search that was started reaches its end, and at its end, on
\* every path, the loading indicator is hidden and stays hidden.
C29_IndicatorHiddenAtEnd ==
  /\ [](spc = "done" => loading = "hidden")
  /\ (spc # "idle") ~> (spc = "done")
  /\ [][spc = "done" => spc' = "done"]_vars

\* a route arrived while the map was not ready: it was dropped without an
\* alert, and the indicator is hidden
C29_Witness ==
  /\ spc = "done"
  /\ Len(dirCalls) = 1
  /\ alerts = <<>>
  /\ mapRoute = ""
  /\ loading = "hidden"

(* ====================================================================== *)
(*                 CLAIMS ABOUT THE WORKER'S CORS HEADERS                 *)
(* ====================================================================== *)

\* the request's Origin header is one of the listed origins
OriginListed == \E k \in DOMAIN ALLOWED_ORIGINS : ALLOWED_ORIGINS[k] = wreq.origin

\* C30: for every request, the Access-Control-Allow-Origin header that
\* handleCors computed is an entry of ALLOWED_ORIGINS: it is the request's
\* Origin exactly when that origin is listed and the first entry otherwise,
\* so an origin that is not listed is never reflected; and a response that
\* carries the header carries that value.
C30_AllowOriginFromList ==
  wpc = "done" =>
    /\ \E k \in DOMAIN ALLOWED_ORIGINS : corsHeaders = ALLOWED_ORIGINS[k]
    /\ OriginListed => corsHeaders = wreq.origin
    /\ ~OriginListed => /\ corsHeaders = ALLOWED_ORIGINS[1]
                        /\ corsHeaders # wreq.origin
    /\ wresponse.allowOrigin \in {Undefined, corsHeaders}

\* an API request from an origin that extends a listed one was answered
\* with the first listed origin
C30_Witness ==
  /\ wpc = "done"
  /\ wreq.origin = "https://yourdomain.com.evil.example"
  /\ wresponse.kind = "api"
  /\ wresponse.allowOrigin = "https://yourdomain.com"

=============================================================================
